---- MODULE Spec2Model ----
(***************************************************************************)
(* Transaction reconciliation: the Transaction entity                      *)
(* (internal/domain/transaction) and the exact matching strategy           *)
(* (pkg/matcher).                                                          *)
(*                                                                         *)
(* Amounts are float64 in the source.  Here an amount is a fixed-point     *)
(* integer counting ten-thousandths of a currency unit (10000 per unit),   *)
(* so that sub-cent precision and the 0.001 epsilon of amountsEqual        *)
(* are both representable: 1.0005 is 10005, the epsilon is 10.             *)
(* Binary rounding of float64 products is not represented.                 *)
(*                                                                         *)
(* A *transaction.Transaction is a reference into `heap`; the slices that  *)
(* Match receives and returns are sequences of references.                 *)
(***************************************************************************)
EXTENDS Integers, Sequences, FiniteSets, TLC

VARIABLES
    heap,             \* reference -> Transaction object
    systemTxns,       \* call -> the systemTxns argument of that Match call
    bankTxns,         \* call -> the bankTxns argument of that Match call
    pc,               \* call -> position of the call in Match
    bankTxnMap,       \* call -> local map key -> sequence of bank references
    matchedBankTxns,  \* call -> local set of bank IDs marked true
    idx,              \* call -> index of the next element of systemTxns
    result,           \* call -> the MatchResult under construction
    heap0,            \* the heap as it was when construction finished
    amountTrace,      \* Amount of the normalized transaction after 0, 1, ... NormalizeAmount calls
    matchers,         \* matcher -> ExactMatcher object
    em,               \* call -> the matcher that is the receiver of the call
    err,              \* call -> the error the call returned, "pending" before it returns
    observed          \* what the last IsDebit / AbsAmount query saw and returned

vars == <<heap, systemTxns, bankTxns, pc, bankTxnMap, matchedBankTxns, idx,
          result, heap0, amountTrace, matchers, em, err, observed>>

matchVars == <<systemTxns, bankTxns, pc, bankTxnMap, matchedBankTxns, idx, result>>

----------------------------------------------------------------------------
(* Bounds of the model *)

MaxSys == 2
MaxBank == 3
MaxRaw == 6
MaxNormCalls == 2
MaxPermLen == 2
MaxPairLen == 2

----------------------------------------------------------------------------
(* Program constants *)

\* amount * 100 in formatAmount, on the fixed-point representation
CentDivisor == 100

\* const epsilon = 0.001 in amountsEqual
epsilon == 10

MaxRune == 1114111
SurrogateMin == 55296
SurrogateMax == 57343
RuneError == 65533

TransactionTypeDebit == "DEBIT"
TransactionTypeCredit == "CREDIT"
SourceTypeSystem == "SYSTEM"
SourceTypeBank == "BANK"

----------------------------------------------------------------------------
(* internal/domain/transaction *)

NewTransaction(id, sourceType, transactionDate, amount, txnType, source) ==
    [ID |-> id, SourceType |-> sourceType, TransactionDate |-> transactionDate,
     Amount |-> amount, Type |-> txnType, Source |-> source, Matched |-> FALSE]

IsDebitBySignOnly(t) == t.Amount < 0

IsDebit(t) == t.Type = TransactionTypeDebit \/ t.Amount < 0

AbsAmount(t) == IF t.Amount < 0 THEN -t.Amount ELSE t.Amount

NormalizeAmountRetype(t) ==
    IF t.Type = TransactionTypeDebit /\ t.Amount > 0 THEN [t EXCEPT !.Amount = -t.Amount]
    ELSE IF t.Type = TransactionTypeCredit /\ t.Amount < 0
         THEN [t EXCEPT !.Type = TransactionTypeDebit]
         ELSE t

NormalizeAmountFlipAlways(t) ==
    IF t.Type = TransactionTypeDebit THEN [t EXCEPT !.Amount = -t.Amount]
    ELSE IF t.Type = TransactionTypeCredit /\ t.Amount < 0
         THEN [t EXCEPT !.Amount = -t.Amount]
         ELSE t

NormalizeAmountNoCredit(t) ==
    IF t.Type = TransactionTypeDebit /\ t.Amount > 0
    THEN [t EXCEPT !.Amount = -t.Amount]
    ELSE t

NormalizeAmount(t) ==
    IF t.Type = TransactionTypeDebit /\ t.Amount > 0
    THEN [t EXCEPT !.Amount = -t.Amount]
    ELSE IF t.Type = TransactionTypeCredit /\ t.Amount < 0
         THEN [t EXCEPT !.Amount = -t.Amount]
         ELSE t

----------------------------------------------------------------------------
(* pkg/matcher: result types *)

RECURSIVE SumDiscrepancy(_)
SumDiscrepancy(pairs) ==
    IF pairs = <<>> THEN 0
    ELSE Head(pairs).AmountDiscrepancy + SumDiscrepancy(Tail(pairs))

RECURSIVE SumAbsAmount(_, _)
SumAbsAmount(h, txns) ==
    IF txns = <<>> THEN 0
    ELSE AbsAmount(h[Head(txns)]) + SumAbsAmount(h, Tail(txns))

CalculateMatchRateSingleCount(totalMatched, totalSystem, totalBank) ==
    IF totalSystem = 0 /\ totalBank = 0
    THEN [num |-> 100, den |-> 1]
    ELSE [num |-> totalMatched * 100, den |-> totalSystem + totalBank]

\* float64 quotient kept as an exact fraction: the rate is num / den
CalculateMatchRate(totalMatched, totalSystem, totalBank) ==
    IF totalSystem = 0 /\ totalBank = 0
    THEN [num |-> 100, den |-> 1]
    ELSE [num |-> (totalMatched * 2) * 100, den |-> totalSystem + totalBank]

NewMatchResult(algorithmName) ==
    [Matched |-> <<>>, UnmatchedSystem |-> <<>>, UnmatchedBank |-> <<>>,
     AlgorithmUsed |-> algorithmName, MatchRate |-> [num |-> 0, den |-> 1],
     TotalSystemTxns |-> 0, TotalBankTxns |-> 0, TotalMatched |-> 0,
     TotalDiscrepancy |-> 0]

Finalize(mr, h) ==
    LET totalSystem == Len(mr.Matched) + Len(mr.UnmatchedSystem)
        totalBank == Len(mr.Matched) + Len(mr.UnmatchedBank)
    IN [mr EXCEPT
          !.TotalSystemTxns = totalSystem,
          !.TotalBankTxns = totalBank,
          !.TotalMatched = Len(mr.Matched),
          !.MatchRate = CalculateMatchRate(Len(mr.Matched), totalSystem, totalBank),
          !.TotalDiscrepancy = SumDiscrepancy(mr.Matched)
                               + SumAbsAmount(h, mr.UnmatchedSystem)
                               + SumAbsAmount(h, mr.UnmatchedBank)]

----------------------------------------------------------------------------
(* pkg/matcher: ExactMatcher *)

DefaultConfig == [AmountTolerancePct |-> 0]

NewExactMatcher(config) == [config |-> config]

Name == "exact"

Abs(x) == IF x < 0 THEN -x ELSE x

\* t.Date(): year, month and day as one ordinal; the time of day is dropped
Date(t) == t.day

isSameDay(t1, t2) == Date(t1) = Date(t2)

amountsEqual(a1, a2) == Abs(a1 - a2) < epsilon

\* string(rune(n)): the one-character string of code point n, and the
\* replacement character for a surrogate or a value outside Unicode.
\* The string is represented by the code point of its character.
RuneString(n) ==
    IF n < 0 \/ n > MaxRune \/ (n >= SurrogateMin /\ n <= SurrogateMax)
    THEN RuneError
    ELSE n

\* int(amount * 100) truncates toward zero; the amounts of the model keep
\* the product far below 2^31, where the conversion to rune would wrap.
formatAmount(amount) == RuneString(amount \div CentDivisor)

generateKey(txn) ==
    <<Date(txn.TransactionDate),
      IF IsDebit(txn) THEN "debit" ELSE "credit",
      formatAmount(AbsAmount(txn))>>

isExactMatchIgnoreAmount(sysTxn, bankTxn) ==
    /\ isSameDay(sysTxn.TransactionDate, bankTxn.TransactionDate)
    /\ IsDebit(sysTxn) = IsDebit(bankTxn)

isExactMatch(sysTxn, bankTxn) ==
    /\ isSameDay(sysTxn.TransactionDate, bankTxn.TransactionDate)
    /\ IsDebit(sysTxn) = IsDebit(bankTxn)
    /\ amountsEqual(AbsAmount(sysTxn), AbsAmount(bankTxn))

calculateDiscrepancy(sysTxn, bankTxn) == Abs(AbsAmount(sysTxn) - AbsAmount(bankTxn))

\* first loop of Match: bankTxnMap[key] = append(bankTxnMap[key], bankTxn)
BuildMap(h, banks) ==
    LET keys == {generateKey(h[banks[k]]) : k \in 1..Len(banks)}
    IN [key \in keys |->
          LET HasKey(b) == generateKey(h[b]) = key IN SelectSeq(banks, HasKey)]

\* candidates, exists := bankTxnMap[key]
Lookup(map, key) == IF key \in DOMAIN map THEN map[key] ELSE <<>>

\* the candidates whose ID is not marked in matchedBankTxns
AvailableCandidates(h, candidates, consumed) ==
    LET Free(b) == h[b].ID \notin consumed IN SelectSeq(candidates, Free)

\* index of the first available candidate that isExactMatch accepts, 0 if none
FirstMatch(h, sysTxn, available) ==
    LET hits == {k \in 1..Len(available) : isExactMatch(h[sysTxn], h[available[k]])}
    IN IF hits = {} THEN 0 ELSE CHOOSE k \in hits : \A j \in hits : k <= j

MakePair(h, sysTxn, bankTxn) ==
    [SystemTransaction |-> sysTxn, BankTransaction |-> bankTxn,
     ConfidenceScore |-> 100,
     AmountDiscrepancy |-> calculateDiscrepancy(h[sysTxn], h[bankTxn])]

\* One iteration of the loop over systemTxns.  st is the pair of locals the
\* iteration updates: [result, matchedBankTxns].
LoopBodyDropUnverified(h, map, st, sysTxn) ==
    LET candidates == Lookup(map, generateKey(h[sysTxn]))
        available == AvailableCandidates(h, candidates, st.matchedBankTxns)
        k == FirstMatch(h, sysTxn, available)
        unmatched == [st EXCEPT !.result.UnmatchedSystem = Append(@, sysTxn)]
    IN IF Len(candidates) = 0 THEN unmatched
       ELSE IF Len(available) > 1 THEN unmatched
       ELSE IF k # 0
            THEN [st EXCEPT
                    !.result.Matched = Append(@, MakePair(h, sysTxn, available[k])),
                    !.matchedBankTxns = @ \cup {h[available[k]].ID}]
            ELSE st

LoopBodyNoMark(h, map, st, sysTxn) ==
    LET candidates == Lookup(map, generateKey(h[sysTxn]))
        available == AvailableCandidates(h, candidates, st.matchedBankTxns)
        k == FirstMatch(h, sysTxn, available)
        unmatched == [st EXCEPT !.result.UnmatchedSystem = Append(@, sysTxn)]
    IN IF Len(candidates) = 0 THEN unmatched
       ELSE IF Len(available) > 1 THEN unmatched
       ELSE IF k # 0
            THEN [st EXCEPT
                    !.result.Matched = Append(@, MakePair(h, sysTxn, available[k]))]
            ELSE unmatched

LoopBodyGuessFirst(h, map, st, sysTxn) ==
    LET candidates == Lookup(map, generateKey(h[sysTxn]))
        available == AvailableCandidates(h, candidates, st.matchedBankTxns)
        k == FirstMatch(h, sysTxn, available)
        unmatched == [st EXCEPT !.result.UnmatchedSystem = Append(@, sysTxn)]
    IN IF Len(candidates) = 0 THEN unmatched
       ELSE IF k # 0
            THEN [st EXCEPT
                    !.result.Matched = Append(@, MakePair(h, sysTxn, available[k])),
                    !.matchedBankTxns = @ \cup {h[available[k]].ID}]
            ELSE unmatched

LoopBodyRevisit(h, map, st, sysTxn) ==
    LET candidates == Lookup(map, generateKey(h[sysTxn]))
        available == AvailableCandidates(h, candidates, st.matchedBankTxns)
        k == FirstMatch(h, sysTxn, available)
        unmatched == [st EXCEPT !.result.UnmatchedSystem = Append(@, sysTxn)]
        paired == [st EXCEPT
                     !.result.Matched = Append(@, MakePair(h, sysTxn, available[k])),
                     !.matchedBankTxns = @ \cup {h[available[k]].ID}]
        Left(u) == AvailableCandidates(h, Lookup(map, generateKey(h[u])),
                                       paired.matchedBankTxns)
        Resolvable(u) == Len(Left(u)) = 1 /\ FirstMatch(h, u, Left(u)) # 0
        again == {i \in DOMAIN st.result.UnmatchedSystem :
                     Resolvable(st.result.UnmatchedSystem[i])}
        i0 == CHOOSE i \in again : \A j \in again : i <= j
        u0 == st.result.UnmatchedSystem[i0]
        Other(u) == u # u0
    IN IF Len(candidates) = 0 THEN unmatched
       ELSE IF Len(available) > 1 THEN unmatched
       ELSE IF k # 0
            THEN IF again = {} THEN paired
                 ELSE [paired EXCEPT
                         !.result.UnmatchedSystem = SelectSeq(@, Other),
                         !.result.Matched = Append(@, MakePair(h, u0, Left(u0)[1])),
                         !.matchedBankTxns = @ \cup {h[Left(u0)[1]].ID}]
            ELSE unmatched

LoopBody(h, map, st, sysTxn) ==
    LET candidates == Lookup(map, generateKey(h[sysTxn]))
        available == AvailableCandidates(h, candidates, st.matchedBankTxns)
        k == FirstMatch(h, sysTxn, available)
        unmatched == [st EXCEPT !.result.UnmatchedSystem = Append(@, sysTxn)]
    IN IF Len(candidates) = 0 THEN unmatched
       ELSE IF Len(available) > 1 THEN unmatched
       ELSE IF k # 0
            THEN [st EXCEPT
                    !.result.Matched = Append(@, MakePair(h, sysTxn, available[k])),
                    !.matchedBankTxns = @ \cup {h[available[k]].ID}]
            ELSE unmatched

CollectUnmatchedBankReversed(h, banks, consumed) ==
    LET Free(b) == h[b].ID \notin consumed
        kept == SelectSeq(banks, Free)
    IN [k \in 1..Len(kept) |-> kept[Len(kept) + 1 - k]]

\* last loop of Match: the bank transactions whose ID is not marked
CollectUnmatchedBank(h, banks, consumed) ==
    LET Free(b) == h[b].ID \notin consumed IN SelectSeq(banks, Free)

----------------------------------------------------------------------------
(* Match, one action per stage of the function; c is the invocation *)

MatchStart(c) ==
    /\ pc[c] = "start"
    /\ result' = [result EXCEPT ![c] = NewMatchResult(Name)]
    /\ bankTxnMap' = [bankTxnMap EXCEPT ![c] = BuildMap(heap, bankTxns[c])]
    /\ matchedBankTxns' = [matchedBankTxns EXCEPT ![c] = {}]
    /\ idx' = [idx EXCEPT ![c] = 1]
    /\ pc' = [pc EXCEPT ![c] = "loop"]
    /\ UNCHANGED <<heap, systemTxns, bankTxns, heap0, amountTrace>>
    /\ UNCHANGED <<matchers, em, err, observed>>

MatchLoopSharedConsumed(c) ==
    /\ pc[c] = "loop"
    /\ idx[c] <= Len(systemTxns[c])
    /\ LET shared == UNION {matchedBankTxns[d] : d \in DOMAIN pc}
           st == LoopBody(heap, bankTxnMap[c],
                          [result |-> result[c], matchedBankTxns |-> shared],
                          systemTxns[c][idx[c]])
       IN /\ result' = [result EXCEPT ![c] = st.result]
          /\ matchedBankTxns' = [matchedBankTxns EXCEPT ![c] = st.matchedBankTxns]
    /\ idx' = [idx EXCEPT ![c] = @ + 1]
    /\ UNCHANGED <<heap, systemTxns, bankTxns, pc, bankTxnMap, heap0, amountTrace>>
    /\ UNCHANGED <<matchers, em, err, observed>>

MatchLoopTolerant(c) ==
    /\ pc[c] = "loop"
    /\ idx[c] <= Len(systemTxns[c])
    /\ LET st0 == [result |-> result[c], matchedBankTxns |-> matchedBankTxns[c]]
           sysTxn == systemTxns[c][idx[c]]
           st == IF matchers[em[c]].config.AmountTolerancePct = 0
                 THEN LoopBody(heap, bankTxnMap[c], st0, sysTxn)
                 ELSE LoopBodyGuessFirst(heap, bankTxnMap[c], st0, sysTxn)
       IN /\ result' = [result EXCEPT ![c] = st.result]
          /\ matchedBankTxns' = [matchedBankTxns EXCEPT ![c] = st.matchedBankTxns]
    /\ idx' = [idx EXCEPT ![c] = @ + 1]
    /\ UNCHANGED <<heap, systemTxns, bankTxns, pc, bankTxnMap, heap0, amountTrace>>
    /\ UNCHANGED <<matchers, em, err, observed>>

MatchLoopMarkMatched(c) ==
    /\ pc[c] = "loop"
    /\ idx[c] <= Len(systemTxns[c])
    /\ LET st == LoopBody(heap, bankTxnMap[c],
                          [result |-> result[c], matchedBankTxns |-> matchedBankTxns[c]],
                          systemTxns[c][idx[c]])
           pair == st.result.Matched[Len(st.result.Matched)]
       IN /\ result' = [result EXCEPT ![c] = st.result]
          /\ matchedBankTxns' = [matchedBankTxns EXCEPT ![c] = st.matchedBankTxns]
          /\ heap' = IF Len(st.result.Matched) > Len(result[c].Matched)
                     THEN [heap EXCEPT ![pair.SystemTransaction].Matched = TRUE,
                                       ![pair.BankTransaction].Matched = TRUE]
                     ELSE heap
    /\ idx' = [idx EXCEPT ![c] = @ + 1]
    /\ UNCHANGED <<systemTxns, bankTxns, pc, bankTxnMap, heap0, amountTrace>>
    /\ UNCHANGED <<matchers, em, err, observed>>

MatchLoop(c) ==
    /\ pc[c] = "loop"
    /\ idx[c] <= Len(systemTxns[c])
    /\ LET st == LoopBody(heap, bankTxnMap[c],
                          [result |-> result[c], matchedBankTxns |-> matchedBankTxns[c]],
                          systemTxns[c][idx[c]])
       IN /\ result' = [result EXCEPT ![c] = st.result]
          /\ matchedBankTxns' = [matchedBankTxns EXCEPT ![c] = st.matchedBankTxns]
    /\ idx' = [idx EXCEPT ![c] = @ + 1]
    /\ UNCHANGED <<heap, systemTxns, bankTxns, pc, bankTxnMap, heap0, amountTrace>>
    /\ UNCHANGED <<matchers, em, err, observed>>

MatchCollect(c) ==
    /\ pc[c] = "loop"
    /\ idx[c] > Len(systemTxns[c])
    /\ result' = [result EXCEPT ![c].UnmatchedBank =
                     CollectUnmatchedBank(heap, bankTxns[c], matchedBankTxns[c])]
    /\ pc' = [pc EXCEPT ![c] = "finalize"]
    /\ UNCHANGED <<heap, systemTxns, bankTxns, bankTxnMap, matchedBankTxns, idx,
                   heap0, amountTrace>>
    /\ UNCHANGED <<matchers, em, err, observed>>

\* return result, nil
ReturnedErrorIfUnmatched(mr) ==
    IF mr.UnmatchedSystem # <<>> \/ mr.UnmatchedBank # <<>>
    THEN "unmatched transactions"
    ELSE "nil"

ReturnedError(mr) == "nil"

MatchReturn(c) ==
    /\ pc[c] = "finalize"
    /\ result' = [result EXCEPT ![c] = Finalize(@, heap)]
    /\ err' = [err EXCEPT ![c] = ReturnedError(result'[c])]
    /\ pc' = [pc EXCEPT ![c] = "done"]
    /\ UNCHANGED <<heap, systemTxns, bankTxns, bankTxnMap, matchedBankTxns, idx,
                   heap0, amountTrace>>
    /\ UNCHANGED <<matchers, em, observed>>

\* SetConfig on matcher m
SetConfig(m, config) ==
    /\ matchers[m].config # config
    /\ matchers' = [matchers EXCEPT ![m].config = config]
    /\ UNCHANGED <<heap, heap0, amountTrace, matchVars, em, err, observed>>

----------------------------------------------------------------------------
(* Construction of the inputs, as the ingestion code and the tests do it *)

\* pkg/matcher tests: NewTransaction, set ID, NormalizeAmount
createSystemTransaction(id, source, amount, txnType, date) ==
    NormalizeAmount(NewTransaction(id, SourceTypeSystem, date, amount, txnType, source))

createBankTransaction(id, source, amount, txnType, date) ==
    NormalizeAmount(NewTransaction(id, SourceTypeBank, date, amount, txnType, source))

BoundedSeq(S, n) == UNION {[1..k -> S] : k \in 0..n}

Types == {TransactionTypeDebit, TransactionTypeCredit}
Days == {1, 2}

\* two statements; the identifier 1 occurs in both
BankIdentities ==
    {[Source |-> "BCA", ID |-> 1], [Source |-> "BCA", ID |-> 2],
     [Source |-> "MANDIRI", ID |-> 1]}

\* 1.0000, 1.0005 (same cent, within epsilon), 1.0030 (same cent, beyond epsilon)
PrecisionAmounts == {10000, 10005, 10030}

\* zero, 552.96 (cents 55296, a surrogate code point), 655.33 (cents 65533,
\* the replacement character itself), 20000.00 (cents beyond the last code point)
RuneAmounts == {0, 5529600, 6553300, 200000000}

\* minutes after midnight: a date-only value and 10:30
TimesOfDay == {0, 630}

\* Inputs that vary the day, the polarity and the bank identifiers
KeyShapes == [day : Days, tod : {0}, type : Types, amount : {10000}]

\* Inputs that vary the amount and the time of day
PrecisionSysShapes ==
    [day : {1}, tod : TimesOfDay, type : {TransactionTypeDebit}, amount : PrecisionAmounts]

PrecisionBankShapes ==
    [day : {1}, tod : {0}, type : {TransactionTypeDebit}, amount : PrecisionAmounts]

\* Inputs whose cent amounts are special code points
RuneShapes == [day : {1}, tod : {0}, type : {TransactionTypeDebit}, amount : RuneAmounts]

SysShapes(universe) ==
    IF universe = "key" THEN KeyShapes
    ELSE IF universe = "precision" THEN PrecisionSysShapes
    ELSE RuneShapes

BankShapes(universe) ==
    IF universe = "key" THEN KeyShapes
    ELSE IF universe = "precision" THEN PrecisionBankShapes
    ELSE RuneShapes

\* system ledgers store positive amounts, bank statements negative debits
SysObject(k, sh) ==
    createSystemTransaction(k, "BCA", sh.amount, sh.type, [day |-> sh.day, tod |-> sh.tod])

BankObject(ident, sh) ==
    createBankTransaction(ident.ID, ident.Source,
                          IF sh.type = TransactionTypeDebit THEN -sh.amount ELSE sh.amount,
                          sh.type, [day |-> sh.day, tod |-> sh.tod])

\* references 1..ns are the system objects, ns+1..ns+nb the bank objects
MakeHeap(sysShapes, bankShapes, idents) ==
    LET ns == Len(sysShapes)
        nb == Len(bankShapes)
    IN [r \in 1..(ns + nb) |->
          IF r <= ns THEN SysObject(r, sysShapes[r])
          ELSE BankObject(idents[r - ns], bankShapes[r - ns])]

SysRefs(ns) == [k \in 1..ns |-> k]
BankRefs(ns, nb) == [k \in 1..nb |-> ns + k]

\* identifiers are unique within a source, not across sources
InjectiveIdents(nb) ==
    {f \in [1..nb -> BankIdentities] : \A i, j \in 1..nb : f[i] = f[j] => i = j}

PositionIdents(nb) == {[k \in 1..nb |-> [Source |-> "BCA", ID |-> k]]}

Reorderings(s) ==
    LET n == Len(s)
        bij == {p \in [1..n -> 1..n] : \A i, j \in 1..n : p[i] = p[j] => i = j}
    IN {[k \in 1..n |-> s[p[k]]] : p \in bij}

\* the configurations a matcher is given: the default and a 5 percent tolerance
Configs == {DefaultConfig, [AmountTolerancePct |-> 5]}

InitCalls(calls, sys, bank) ==
    /\ err = [c \in calls |-> "pending"]
    /\ observed = <<>>
    /\ systemTxns = [c \in calls |-> sys[c]]
    /\ bankTxns = [c \in calls |-> bank[c]]
    /\ pc = [c \in calls |-> "start"]
    /\ bankTxnMap = [c \in calls |-> <<>>]
    /\ matchedBankTxns = [c \in calls |-> {}]
    /\ idx = [c \in calls |-> 0]
    /\ result = [c \in calls |-> NewMatchResult("")]

\* one call of Match on freshly constructed inputs
Init ==
    /\ amountTrace = <<>>
    /\ \E config \in Configs : matchers = [m \in {1} |-> NewExactMatcher(config)]
    /\ em = [c \in {1} |-> 1]
    /\ \E universe \in {"key", "precision", "rune"} :
         \E sysShapes \in BoundedSeq(SysShapes(universe), MaxSys),
            bankShapes \in BoundedSeq(BankShapes(universe), MaxBank) :
           \E idents \in (IF universe = "key" THEN InjectiveIdents(Len(bankShapes))
                          ELSE PositionIdents(Len(bankShapes))) :
             /\ heap = MakeHeap(sysShapes, bankShapes, idents)
             /\ heap0 = heap
             /\ InitCalls({1}, [c \in {1} |-> SysRefs(Len(sysShapes))],
                          [c \in {1} |-> BankRefs(Len(sysShapes), Len(bankShapes))])

Next ==
    \E c \in DOMAIN pc :
        \/ MatchStart(c)
        \/ MatchLoop(c)
        \/ MatchCollect(c)
        \/ MatchReturn(c)

Spec == Init /\ [][Next]_vars

----------------------------------------------------------------------------
(* Two calls of Match on the same transactions in different orders *)

PermShapes == [day : {1}, tod : {0}, type : Types, amount : {10000}]

InitPerm ==
    /\ amountTrace = <<>>
    /\ matchers = [m \in {1} |-> NewExactMatcher(DefaultConfig)]
    /\ em = [c \in {1, 2} |-> 1]
    /\ \E sysShapes \in BoundedSeq(PermShapes, MaxPermLen),
          bankShapes \in BoundedSeq(PermShapes, MaxPermLen) :
         \E idents \in InjectiveIdents(Len(bankShapes)) :
           LET ns == Len(sysShapes)
               nb == Len(bankShapes)
           IN /\ heap = MakeHeap(sysShapes, bankShapes, idents)
              /\ heap0 = heap
              /\ \E sys2 \in Reorderings(SysRefs(ns)),
                    bank2 \in Reorderings(BankRefs(ns, nb)) :
                   InitCalls({1, 2},
                             [c \in {1, 2} |-> IF c = 1 THEN SysRefs(ns) ELSE sys2],
                             [c \in {1, 2} |-> IF c = 1 THEN BankRefs(ns, nb) ELSE bank2])

SpecPerm == InitPerm /\ [][Next]_vars

----------------------------------------------------------------------------
(* Two calls of Match that run concurrently, on one matcher or on two, while *)
(* the matchers are reconfigured                                             *)

PairShapes == [day : {1}, tod : {0}, type : {TransactionTypeDebit}, amount : {10000}]

Prefixes(s) == {SubSeq(s, 1, k) : k \in 0..Len(s)}

InitPair ==
    /\ amountTrace = <<>>
    /\ \E receiver \in {1, 2} :
         /\ em = [c \in {1, 2} |-> IF c = 1 THEN 1 ELSE receiver]
         /\ matchers \in [1..receiver -> {NewExactMatcher(config) : config \in Configs}]
    /\ \E sysShapes \in BoundedSeq(PairShapes, MaxPairLen),
          bankShapes \in BoundedSeq(PairShapes, MaxPairLen) :
         \E idents \in InjectiveIdents(Len(bankShapes)) :
           LET ns == Len(sysShapes)
               nb == Len(bankShapes)
           IN /\ heap = MakeHeap(sysShapes, bankShapes, idents)
              /\ heap0 = heap
              /\ \E sys2 \in Prefixes(SysRefs(ns)), bank2 \in Prefixes(BankRefs(ns, nb)) :
                   InitCalls({1, 2},
                             [c \in {1, 2} |-> IF c = 1 THEN SysRefs(ns) ELSE sys2],
                             [c \in {1, 2} |-> IF c = 1 THEN BankRefs(ns, nb) ELSE bank2])

NextPair ==
    \/ Next
    \/ \E m \in DOMAIN matchers, config \in Configs : SetConfig(m, config)

SpecPair == InitPair /\ [][NextPair]_vars

----------------------------------------------------------------------------
(* A transaction that is constructed and then normalized, possibly again *)

NormTypes == {TransactionTypeDebit, TransactionTypeCredit, "OTHER"}

InitNorm ==
    /\ \E amount \in (-MaxRaw)..MaxRaw, txnType \in NormTypes :
         heap = [r \in {1} |->
                   NewTransaction(1, SourceTypeSystem, [day |-> 1, tod |-> 0],
                                  amount, txnType, "BCA")]
    /\ heap0 = heap
    /\ amountTrace = <<heap[1].Amount>>
    /\ matchers = <<>>
    /\ em = <<>>
    /\ InitCalls({}, <<>>, <<>>)

NormalizeAmountCall ==
    /\ amountTrace # <<>>
    /\ Len(amountTrace) <= MaxNormCalls
    /\ heap' = [heap EXCEPT ![1] = NormalizeAmount(@)]
    /\ amountTrace' = Append(amountTrace, heap'[1].Amount)
    /\ UNCHANGED <<heap0, matchVars, matchers, em, err, observed>>

\* a caller asks IsDebit() and AbsAmount() of the transaction
Query ==
    /\ amountTrace # <<>>
    /\ observed' = <<[txn |-> heap[1],
                      IsDebit |-> IsDebit(heap[1]),
                      AbsAmount |-> AbsAmount(heap[1])]>>
    /\ observed' # observed
    /\ UNCHANGED <<heap, heap0, amountTrace, matchVars, matchers, em, err>>

NextNorm == NormalizeAmountCall \/ Query

SpecNorm == InitNorm /\ [][NextNorm]_vars

----------------------------------------------------------------------------
(* Vocabulary of the properties *)

Range(s) == {s[k] : k \in 1..Len(s)}

Occurrences(s, x) == Cardinality({k \in 1..Len(s) : s[k] = x})

PairedSystem(c) == [k \in 1..Len(result[c].Matched) |-> result[c].Matched[k].SystemTransaction]

PairedBank(c) == [k \in 1..Len(result[c].Matched) |-> result[c].Matched[k].BankTransaction]

PairSet(c) == {<<p.SystemTransaction, p.BankTransaction>> : p \in Range(result[c].Matched)}

\* same calendar date, same polarity, same absolute amount
SameTriple(x, y) ==
    /\ x.TransactionDate.day = y.TransactionDate.day
    /\ IsDebit(x) = IsDebit(y)
    /\ AbsAmount(x) = AbsAmount(y)

----------------------------------------------------------------------------
(* Properties of Match *)

\* C1: when Match returns, every system transaction is in exactly one of
\* Matched (as SystemTransaction) and UnmatchedSystem, the two lengths add up
\* to the length of systemTxns, and TotalSystemTxns is that length.
C1_SystemPartition ==
    \A c \in DOMAIN pc :
        pc[c] = "done" =>
            /\ Len(result[c].Matched) + Len(result[c].UnmatchedSystem) = Len(systemTxns[c])
            /\ result[c].TotalSystemTxns = Len(systemTxns[c])
            /\ \A s \in Range(systemTxns[c]) :
                   Occurrences(PairedSystem(c), s)
                   + Occurrences(result[c].UnmatchedSystem, s) = 1

\* a finished call with a paired and an unmatched system transaction
C1_Witness ==
    \E c \in DOMAIN pc :
        /\ pc[c] = "done"
        /\ Len(result[c].Matched) >= 1
        /\ Len(result[c].UnmatchedSystem) >= 1

\* C2: when Match returns, every bank transaction is in exactly one of
\* Matched (as BankTransaction) and UnmatchedBank, the two lengths add up to
\* the length of bankTxns, and TotalBankTxns is that length.
C2_BankPartition ==
    \A c \in DOMAIN pc :
        pc[c] = "done" =>
            /\ Len(result[c].Matched) + Len(result[c].UnmatchedBank) = Len(bankTxns[c])
            /\ result[c].TotalBankTxns = Len(bankTxns[c])
            /\ \A b \in Range(bankTxns[c]) :
                   Occurrences(PairedBank(c), b)
                   + Occurrences(result[c].UnmatchedBank, b) = 1

\* C3: at every point of a call the pairs emitted so far are one-to-one: no
\* bank transaction and no system transaction is in two pairs.
C3_OneToOne ==
    \A c \in DOMAIN pc :
        \A j, k \in 1..Len(result[c].Matched) :
            j # k =>
                /\ result[c].Matched[j].BankTransaction # result[c].Matched[k].BankTransaction
                /\ result[c].Matched[j].SystemTransaction # result[c].Matched[k].SystemTransaction

\* a finished call that emitted two pairs
C3_Witness ==
    \E c \in DOMAIN pc : pc[c] = "done" /\ Len(result[c].Matched) >= 2

C5_AmbiguityConservatism ==
    \A c \in DOMAIN pc :
        pc[c] = "done" =>
            \A i, j \in 1..Len(bankTxns[c]) :
                (i # j /\ SameTriple(heap[bankTxns[c][i]], heap[bankTxns[c][j]])) =>
                    /\ bankTxns[c][i] \in Range(result[c].UnmatchedBank)
                    /\ bankTxns[c][i] \notin Range(PairedBank(c))
                    /\ \A s \in Range(systemTxns[c]) :
                           SameTriple(heap[s], heap[bankTxns[c][i]]) =>
                               /\ s \in Range(result[c].UnmatchedSystem)
                               /\ s \notin Range(PairedSystem(c))

\* C6: an iteration of the loop over systemTxns that finds exactly one bank
\* transaction, not in a pair yet, with the date, polarity and absolute amount
\* of the system transaction, appends the pair of the two and marks the bank
\* transaction's ID.
C6_UniqueCandidate ==
    [][\A c \in DOMAIN pc :
         (pc[c] = "loop" /\ idx[c] <= Len(systemTxns[c]) /\ idx'[c] = idx[c] + 1) =>
             LET s == systemTxns[c][idx[c]]
                 free == {b \in Range(bankTxns[c]) :
                             /\ b \notin Range(PairedBank(c))
                             /\ SameTriple(heap[s], heap[b])}
             IN Cardinality(free) = 1 =>
                    \E b \in free :
                        /\ Len(result'[c].Matched) = Len(result[c].Matched) + 1
                        /\ result'[c].Matched[Len(result'[c].Matched)].SystemTransaction = s
                        /\ result'[c].Matched[Len(result'[c].Matched)].BankTransaction = b
                        /\ heap[b].ID \in matchedBankTxns'[c]]_vars

\* C7: every emitted pair has AmountDiscrepancy 0.
C7_ZeroDiscrepancy ==
    \A c \in DOMAIN pc :
        \A p \in Range(result[c].Matched) : p.AmountDiscrepancy = 0

\* C8: two calls on the same transactions, in any two orders, return the same
\* set of pairs and the same sets of unmatched system and bank transactions.
C8_OrderIrrelevant ==
    (\A c \in DOMAIN pc : pc[c] = "done") =>
        \A c, d \in DOMAIN pc :
            /\ PairSet(c) = PairSet(d)
            /\ Range(result[c].UnmatchedSystem) = Range(result[d].UnmatchedSystem)
            /\ Range(result[c].UnmatchedBank) = Range(result[d].UnmatchedBank)

\* C8 (amended): two calls that receive systemTxns in the same order and
\* bankTxns in any two orders return the same set of pairs and the same sets of
\* unmatched system and bank transactions.
C8_BankOrderIrrelevant ==
    (\A c \in DOMAIN pc : pc[c] = "done") =>
        \A c, d \in DOMAIN pc :
            systemTxns[c] = systemTxns[d] =>
                /\ PairSet(c) = PairSet(d)
                /\ Range(result[c].UnmatchedSystem) = Range(result[d].UnmatchedSystem)
                /\ Range(result[c].UnmatchedBank) = Range(result[d].UnmatchedBank)

\* two finished calls with equal systemTxns and differently ordered bankTxns,
\* one bank transaction paired and one left over
C8_Witness ==
    /\ DOMAIN pc = {1, 2}
    /\ \A c \in DOMAIN pc : pc[c] = "done"
    /\ systemTxns[1] = systemTxns[2]
    /\ bankTxns[1] # bankTxns[2]
    /\ result[1].Matched # <<>>
    /\ result[1].UnmatchedBank # <<>>

----------------------------------------------------------------------------
(* Properties of NormalizeAmount *)

C10_Idempotent ==
    /\ Len(amountTrace) >= 3 => amountTrace[3] = amountTrace[2]
    /\ \A k \in 1..(Len(amountTrace) - 1) :
           (\/ heap[1].Type = TransactionTypeDebit /\ amountTrace[k] < 0
            \/ heap[1].Type = TransactionTypeCredit /\ amountTrace[k] >= 0)
               => amountTrace[k + 1] = amountTrace[k]

\* a DEBIT whose sign the first call flipped and the second call kept
C10_Witness ==
    /\ Len(amountTrace) = 3
    /\ heap[1].Type = TransactionTypeDebit
    /\ amountTrace[1] > 0
    /\ amountTrace[2] < 0

----------------------------------------------------------------------------
(* Properties of the statistics *)

\* C11: when Match returns, MatchRate is 100 if TotalSystemTxns and
\* TotalBankTxns are both zero, and 2 * |Matched| / (TotalSystemTxns +
\* TotalBankTxns) * 100 otherwise; two empty inputs give rate 100 and three
\* empty partitions.
C11_MatchRate ==
    \A c \in DOMAIN pc :
        pc[c] = "done" =>
            LET r == result[c]
                total == r.TotalSystemTxns + r.TotalBankTxns
            IN /\ r.MatchRate.den > 0
               /\ (r.TotalSystemTxns = 0 /\ r.TotalBankTxns = 0)
                      => r.MatchRate.num = 100 * r.MatchRate.den
               /\ ~(r.TotalSystemTxns = 0 /\ r.TotalBankTxns = 0)
                      => r.MatchRate.num * total = (2 * Len(r.Matched)) * 100 * r.MatchRate.den
               /\ (systemTxns[c] = <<>> /\ bankTxns[c] = <<>>)
                      => /\ r.MatchRate.num = 100 * r.MatchRate.den
                         /\ r.Matched = <<>>
                         /\ r.UnmatchedSystem = <<>>
                         /\ r.UnmatchedBank = <<>>

\* a finished call with one pair among three transactions: rate 200 / 3
C11_Witness ==
    \E c \in DOMAIN pc :
        /\ pc[c] = "done"
        /\ Len(result[c].Matched) = 1
        /\ result[c].TotalSystemTxns + result[c].TotalBankTxns = 3
        /\ result[c].MatchRate = [num |-> 200, den |-> 3]

\* C12: when Match returns, TotalDiscrepancy is the sum of AmountDiscrepancy
\* over the pairs plus the sum of AbsAmount over UnmatchedSystem and
\* UnmatchedBank; when one system transaction is unmatched and every other
\* transaction is paired, it is the absolute amount of that transaction.
C12_TotalDiscrepancy ==
    \A c \in DOMAIN pc :
        pc[c] = "done" =>
            LET r == result[c]
            IN /\ r.TotalDiscrepancy =
                      SumDiscrepancy(r.Matched)
                      + SumAbsAmount(heap, r.UnmatchedSystem)
                      + SumAbsAmount(heap, r.UnmatchedBank)
               /\ (/\ Len(r.UnmatchedSystem) = 1
                   /\ r.UnmatchedBank = <<>>
                   /\ Len(r.Matched) + 1 = Len(systemTxns[c])
                   /\ Len(r.Matched) = Len(bankTxns[c]))
                      => r.TotalDiscrepancy = AbsAmount(heap[r.UnmatchedSystem[1]])

----------------------------------------------------------------------------
(* Properties of the contract of Match *)

\* C13: Match never fails: for every input and every configuration a
\* returned call has a MatchResult built by this call and a nil error, and
\* no error is set before the return; ambiguity shows only in the unmatched
\* partitions.
C13_NeverFails ==
    \A c \in DOMAIN pc :
        /\ pc[c] = "done" => /\ err[c] = "nil"
                             /\ result[c].AlgorithmUsed = Name
        /\ pc[c] # "done" => err[c] = "pending"

C13_Witness ==
    \E c \in DOMAIN pc :
        /\ pc[c] = "done"
        /\ err[c] = "nil"
        /\ matchers[em[c]].config.AmountTolerancePct # 0
        /\ \E i \in DOMAIN result[c].UnmatchedSystem :
               Len(Lookup(bankTxnMap[c], generateKey(heap[result[c].UnmatchedSystem[i]]))) > 1

\* C14: Match leaves its inputs unchanged: no step of a call changes a field
\* of any transaction, nor the elements or the order of systemTxns and
\* bankTxns.
C14_InputsUnchanged ==
    [][/\ heap' = heap
       /\ systemTxns' = systemTxns
       /\ bankTxns' = bankTxns]_vars

C14_Witness ==
    \E c \in DOMAIN pc :
        /\ pc[c] = "done"
        /\ result[c].Matched # <<>>
        /\ heap = heap0
        /\ \A i \in DOMAIN result[c].Matched :
               /\ ~heap[result[c].Matched[i].SystemTransaction].Matched
               /\ ~heap[result[c].Matched[i].BankTransaction].Matched

\* C15: the result does not depend on the configuration: two returned calls
\* on the same inputs, whatever the AmountTolerancePct of their matchers and
\* whatever SetConfig did meanwhile, have identical partitions and
\* statistics and a nil error.
C15_ConfigIrrelevant ==
    \A c, d \in DOMAIN pc :
        (/\ pc[c] = "done"
         /\ pc[d] = "done"
         /\ systemTxns[c] = systemTxns[d]
         /\ bankTxns[c] = bankTxns[d])
            => /\ result[c] = result[d]
               /\ err[c] = "nil"
               /\ err[d] = "nil"

C15_Witness ==
    \E c, d \in DOMAIN pc :
        /\ pc[c] = "done"
        /\ pc[d] = "done"
        /\ em[c] # em[d]
        /\ matchers[em[c]].config.AmountTolerancePct = 0
        /\ matchers[em[d]].config.AmountTolerancePct # 0
        /\ systemTxns[c] = systemTxns[d]
        /\ bankTxns[c] = bankTxns[d]
        /\ Len(bankTxns[c]) > 1
        /\ result[c].UnmatchedSystem # <<>>
        /\ result[c] = result[d]

\* The locals of a call that has classified the first n system transactions
\* with nothing else running.
RECURSIVE RunLoop(_, _, _, _)
RunLoop(h, map, sys, n) ==
    IF n = 0
    THEN [result |-> NewMatchResult(Name), matchedBankTxns |-> {}]
    ELSE LoopBody(h, map, RunLoop(h, map, sys, n - 1), sys[n])

\* What Match returns for these inputs when it runs alone.
MatchAlone(h, sys, banks) ==
    LET st == RunLoop(h, BuildMap(h, banks), sys, Len(sys))
    IN Finalize([st.result EXCEPT
                   !.UnmatchedBank = CollectUnmatchedBank(h, banks, st.matchedBankTxns)],
                h)

\* C16: calls of Match never interact: under every interleaving, the
\* consumed set and the result under construction of a call are those of
\* the call running alone, every returned call has the result it has when
\* run alone, and two returned calls on one matcher with the same inputs
\* have the same result.
C16_NoInteraction ==
    /\ \A c \in DOMAIN pc :
          /\ pc[c] = "loop" =>
                 /\ matchedBankTxns[c] =
                        RunLoop(heap, bankTxnMap[c], systemTxns[c], idx[c] - 1).matchedBankTxns
                 /\ result[c] =
                        RunLoop(heap, bankTxnMap[c], systemTxns[c], idx[c] - 1).result
          /\ pc[c] = "done" => result[c] = MatchAlone(heap, systemTxns[c], bankTxns[c])
    /\ \A c, d \in DOMAIN pc :
          (/\ pc[c] = "done" /\ pc[d] = "done" /\ em[c] = em[d]
           /\ systemTxns[c] = systemTxns[d] /\ bankTxns[c] = bankTxns[d])
              => result[c] = result[d]

C16_Witness ==
    \E c, d \in DOMAIN pc :
        /\ c # d
        /\ em[c] = em[d]
        /\ pc[c] = "done"
        /\ pc[d] = "done"
        /\ result[c].Matched # <<>>
        /\ result[d].Matched # <<>>
        /\ result[c].Matched[1].BankTransaction = result[d].Matched[1].BankTransaction
        /\ result[d] = MatchAlone(heap, systemTxns[d], bankTxns[d])

----------------------------------------------------------------------------
(* Properties of the queries of a transaction *)

\* C17: IsDebit() returns true exactly when Type is DEBIT or Amount < 0;
\* AbsAmount() returns Amount when Amount >= 0 and -Amount otherwise, so it
\* is never negative and it is 0 for a zero amount.
C17_Queries ==
    \A k \in DOMAIN observed :
        LET o == observed[k]
        IN /\ o.IsDebit <=> (o.txn.Type = TransactionTypeDebit \/ o.txn.Amount < 0)
           /\ o.txn.Amount >= 0 => o.AbsAmount = o.txn.Amount
           /\ o.txn.Amount < 0 => o.AbsAmount = 0 - o.txn.Amount
           /\ o.AbsAmount >= 0
           /\ o.txn.Amount = 0 => o.AbsAmount = 0

C17_Witness ==
    \E k \in DOMAIN observed :
        /\ observed[k].txn.Type = TransactionTypeDebit
        /\ observed[k].txn.Amount > 0
        /\ observed[k].IsDebit
        /\ observed[k].AbsAmount = observed[k].txn.Amount

----------------------------------------------------------------------------
(* Properties of the run of Match *)

IsPrefix(s, t) == Len(s) <= Len(t) /\ SubSeq(t, 1, Len(s)) = s

\* C18: single pass without backtracking: every step only extends Matched
\* and UnmatchedSystem at the end and only adds to the consumed set; a step
\* of the loop appends the next system transaction in input order to exactly
\* one of the two; so a classification, once made, never changes, and an
\* ambiguous system transaction is not revisited.
C18_SinglePass ==
    [][\A c \in DOMAIN pc :
          /\ IsPrefix(result[c].Matched, result'[c].Matched)
          /\ IsPrefix(result[c].UnmatchedSystem, result'[c].UnmatchedSystem)
          /\ matchedBankTxns[c] \subseteq matchedBankTxns'[c] \/ pc[c] = "start"
          /\ (idx'[c] # idx[c] /\ pc[c] = "loop") =>
                LET sysTxn == systemTxns[c][idx[c]]
                    paired == /\ Len(result'[c].Matched) = Len(result[c].Matched) + 1
                              /\ result'[c].Matched[Len(result'[c].Matched)].SystemTransaction
                                     = sysTxn
                              /\ result'[c].UnmatchedSystem = result[c].UnmatchedSystem
                    unmatched == /\ result'[c].UnmatchedSystem
                                        = Append(result[c].UnmatchedSystem, sysTxn)
                                 /\ result'[c].Matched = result[c].Matched
                IN /\ idx'[c] = idx[c] + 1
                   /\ paired \/ unmatched
          /\ (idx'[c] = idx[c] \/ pc[c] # "loop") =>
                /\ result'[c].Matched = result[c].Matched
                /\ result'[c].UnmatchedSystem = result[c].UnmatchedSystem]_vars

\* an ambiguous system transaction stays unmatched although a later match
\* has left its bucket with a single available candidate
C18_Witness ==
    \E c \in DOMAIN pc :
        /\ pc[c] = "done"
        /\ \E i \in DOMAIN result[c].UnmatchedSystem :
              LET u == result[c].UnmatchedSystem[i]
                  bucket == Lookup(bankTxnMap[c], generateKey(heap[u]))
                  left == AvailableCandidates(heap, bucket, matchedBankTxns[c])
              IN /\ Len(bucket) > 1
                 /\ Len(left) = 1
                 /\ isExactMatch(heap[u], heap[left[1]])
                 /\ result[c].Matched # <<>>

\* C19: at every point of a call, a bank transaction is treated as consumed
\* (left out of the available candidates, and left out of UnmatchedBank at
\* the end) if and only if that same bank transaction is the BankTransaction
\* of a pair emitted earlier in the call.
C19_ConsumedIffPaired ==
    \A c \in DOMAIN pc :
        \A b \in Range(bankTxns[c]) :
            LET bucket == Lookup(bankTxnMap[c], generateKey(heap[b]))
                excluded == b \notin Range(AvailableCandidates(heap, bucket, matchedBankTxns[c]))
                paired == b \in Range(PairedBank(c))
            IN /\ pc[c] = "loop" => (excluded <=> paired)
               /\ pc[c] \in {"finalize", "done"} =>
                      (b \notin Range(result[c].UnmatchedBank) <=> paired)

\* C20: generateKey gives two transactions the same grouping key, and so the
\* same bucket of bankTxnMap, if and only if they have the same calendar
\* date, the same IsDebit polarity and the same absolute amount in whole
\* cents, for every amount including large ones.
C20_KeyIffTriple ==
    \A c \in DOMAIN pc :
        pc[c] # "start" =>
            \A x \in Range(systemTxns[c]) \cup Range(bankTxns[c]), y \in Range(bankTxns[c]) :
                LET sameCents == /\ heap[x].TransactionDate.day = heap[y].TransactionDate.day
                                 /\ IsDebit(heap[x]) = IsDebit(heap[y])
                                 /\ AbsAmount(heap[x]) \div CentDivisor
                                        = AbsAmount(heap[y]) \div CentDivisor
                IN /\ generateKey(heap[x]) = generateKey(heap[y]) <=> sameCents
                   /\ y \in Range(Lookup(bankTxnMap[c], generateKey(heap[x]))) <=> sameCents

\* the elements of out occur in input, in the same relative order
InOrder(out, input) ==
    \A j, k \in 1..Len(out) :
        j < k => \E a, b \in 1..Len(input) :
                     a < b /\ input[a] = out[j] /\ input[b] = out[k]

\* C21: the output sequences preserve input order: Matched and
\* UnmatchedSystem list their system transactions in the relative order of
\* systemTxns, and UnmatchedBank lists its bank transactions in the relative
\* order of bankTxns.
C21_OrderPreserved ==
    \A c \in DOMAIN pc :
        /\ InOrder(PairedSystem(c), systemTxns[c])
        /\ InOrder(result[c].UnmatchedSystem, systemTxns[c])
        /\ InOrder(result[c].UnmatchedBank, bankTxns[c])

C21_Witness ==
    \E c \in DOMAIN pc :
        /\ pc[c] = "done"
        /\ Len(result[c].UnmatchedSystem) >= 2
        /\ Len(result[c].UnmatchedBank) >= 2
        /\ result[c].UnmatchedBank[1] = bankTxns[c][1]
        /\ result[c].UnmatchedSystem[1] = systemTxns[c][1]

====
